---- MODULE Spec2Model ----
(***************************************************************************)
(* capnp-parse: the two-pass reduction of a compiled Cap'n Proto schema    *)
(* (src/src/main.rs, fn main and the Results/Struct/Enum/Interface/Field   *)
(* types).                                                                 *)
(*                                                                         *)
(* The schema message is read through capnp readers, which decode lazily:  *)
(* a getter decodes its piece of the message when it is called and may     *)
(* fail then (the `?` in the source).  The model follows that: `nodes`     *)
(* holds the part of the message decoded so far, each getter call draws    *)
(* the piece it decodes, and `fault` records the first getter that failed. *)
(* Strings that the program slices or uses as keys are byte sequences      *)
(* (Rust's str is UTF-8 and `s[k..]` is a byte slice).                     *)
(***************************************************************************)
EXTENDS Integers, Sequences, FiniteSets, TLC

VARIABLES
    nnodes,            \* length of the node list returned by get_nodes()
    nodes,             \* the nodes decoded so far (all of them once pass 1 ends)
    pass,              \* 0 before the first loop, 1 in the first loop, 2 in the second
    pc,                \* position in main
    n,                 \* nodes consumed by the second loop
    idx,               \* main's idx (0-based, as in the source)
    i,                 \* main's enumerate() index i (0-based)
    a,                 \* annotation applications consumed for the current child
    annotation_names,  \* HashMap<u64, String>
    results,           \* Results
    fault,             \* the getter whose decoding failed, "none" if none did
    output             \* the output file: <<>> until written, then <<json>>

vars == <<nnodes, nodes, pass, pc, n, idx, i, a, annotation_names, results, fault, output>>

----------------------------------------------------------------------------
(* Bounds of the model *)

\* longest node stream
MaxNodes == 3
\* most nodes, children and annotation applications in one stream, together
MaxSize == 5

----------------------------------------------------------------------------
(* The inputs the getters can return *)

\* annotation identities (u64 in the source; only compared, never computed with)
AnnIds == {1, 2}

\* "p:f" with the prefix "p:", "é:g" (é is the two bytes 195 169) with the
\* prefix "é:", and two prefix lengths the slice rejects: one past the end
\* of "p:f", one inside the two-byte character of "é:g".
AnnotationDecls ==
    { [name |-> <<112, 58, 102>>,      prefixLen |-> 2],
      [name |-> <<195, 169, 58, 103>>, prefixLen |-> 3],
      [name |-> <<112, 58, 102>>,      prefixLen |-> 4],
      [name |-> <<195, 169, 58, 103>>, prefixLen |-> 1] }

\* node::Which variants the reflection library decodes
ContainerKinds == {"Struct", "Enum", "Interface"}
OtherKinds == {"Const", "File"}

\* local names of fields, enumerants and methods: "a", "b"
ChildNames == {<<97>>, <<98>>}

\* value::Which variants: Void, Text, one of the remaining variants (Bool),
\* and a payload whose decoding fails (get_value, which or the text getter)
PayloadKinds == {"Void", "Text", "Bool", "Corrupt"}
Texts == {"v1"}

Apps ==
    { [id |-> id, which |-> w, text |-> ""] : id \in AnnIds, w \in PayloadKinds \ {"Text"} }
    \cup { [id |-> id, which |-> "Text", text |-> t] : id \in AnnIds, t \in Texts }

KindLetter(kind) ==
    CASE kind = "Struct"    -> 83
      [] kind = "Enum"      -> 69
      [] kind = "Interface" -> 73
      [] kind = "Const"     -> 67
      [] OTHER              -> 70

\* display name of the k-th node when it is no annotation declaration:
\* "p:S1", "p:E2", ... (distinct per position, so that order is observable)
NodeName(kind, k) == <<112, 58, KindLetter(kind), 48 + k>>

----------------------------------------------------------------------------
(* Helpers over the decoded stream *)

RECURSIVE SumTo(_, _)
SumTo(f, k) == IF k = 0 THEN 0 ELSE f[k] + SumTo(f, k - 1)

ChildSize(node) ==
    node.nchildren
    + SumTo([c \in 1..Len(node.children) |-> node.children[c].nannots], Len(node.children))

\* nodes, children and applications the message is known to hold so far
Size == nnodes + SumTo([k \in 1..Len(nodes) |-> ChildSize(nodes[k])], Len(nodes))

UsedAnnIds == { nodes[k].id : k \in { j \in 1..Len(nodes) : nodes[j].kind = "Annotation" } }

----------------------------------------------------------------------------
(* Rust library operations *)

\* str::is_char_boundary: 0 and len are boundaries, otherwise the byte at the
\* index must not be a continuation byte (128..191)
is_char_boundary(s, k) ==
    \/ k = 0
    \/ k = Len(s)
    \/ /\ k < Len(s)
       /\ ~(s[k + 1] >= 128 /\ s[k + 1] <= 191)

\* the slice taken one byte early
SliceFrom_OffByOne(s, k) == SubSeq(s, k, Len(s))

\* &s[k..] : defined on a char boundary, panics otherwise
SliceFrom(s, k) == SubSeq(s, k + 1, Len(s))

\* an insert that keeps the value of a key already present
MapInsert_KeepFirst(m, k, v) ==
    [x \in DOMAIN m \cup {k} |-> IF x \in DOMAIN m THEN m[x] ELSE v]

\* HashMap::insert: adds the key or replaces its value
MapInsert(m, k, v) == [x \in DOMAIN m \cup {k} |-> IF x = k THEN v ELSE m[x]]

EmptyMap == [x \in {} |-> ""]

\* byte-wise order of String, the order of the BTreeMap in ordered_map
RECURSIVE LexLess(_, _)
LexLess(s, t) ==
    IF s = <<>> THEN t # <<>>
    ELSE IF t = <<>> THEN FALSE
    ELSE IF Head(s) # Head(t) THEN Head(s) < Head(t)
    ELSE LexLess(Tail(s), Tail(t))

RECURSIVE SortedPairs(_, _)
SortedPairs(m, keys) ==
    IF keys = {} THEN <<>>
    ELSE LET k == CHOOSE x \in keys : \A y \in keys \ {x} : LexLess(x, y)
         IN  <<[key |-> k, value |-> m[k]]>> \o SortedPairs(m, keys \ {k})

\* fn ordered_map: the annotation map serialized in ascending key order
ordered_map(m) == SortedPairs(m, DOMAIN m)

----------------------------------------------------------------------------
(* Field, Struct, Enum, Interface, Results *)

\* add_annotation returning Err for a payload kind other than Void and Text
add_annotation_Strict(field, annotation, names) ==
    IF annotation.id \in DOMAIN names
    THEN IF annotation.which \notin {"Void", "Text"}
         THEN [ok |-> FALSE, field |-> field]
         ELSE [ok |-> TRUE,
               field |-> [field EXCEPT !.annotations =
                   [x \in DOMAIN @ \cup {names[annotation.id]} |->
                       IF x = names[annotation.id]
                       THEN (IF annotation.which = "Void" THEN "true" ELSE annotation.text)
                       ELSE @[x]]]]
    ELSE [ok |-> TRUE, field |-> field]

\* add_annotation decoding the payload before it looks the identity up
add_annotation_DecodeFirst(field, annotation, names) ==
    IF annotation.which = "Corrupt"
    THEN [ok |-> FALSE, field |-> field]
    ELSE IF annotation.id \in DOMAIN names
         THEN [ok |-> TRUE,
               field |-> [field EXCEPT !.annotations =
                   [x \in DOMAIN @ \cup {names[annotation.id]} |->
                       IF x = names[annotation.id]
                       THEN (CASE annotation.which = "Void" -> "true"
                               [] annotation.which = "Text" -> annotation.text
                               [] OTHER                     -> "unhandled type")
                       ELSE @[x]]]]
         ELSE [ok |-> TRUE, field |-> field]

\* add_annotation taking a payload that does not decode for an unhandled one
add_annotation_Lenient(field, annotation, names) ==
    IF annotation.id \in DOMAIN names
    THEN [ok |-> TRUE,
          field |-> [field EXCEPT !.annotations =
              [x \in DOMAIN @ \cup {names[annotation.id]} |->
                  IF x = names[annotation.id]
                  THEN (CASE annotation.which = "Void" -> "true"
                          [] annotation.which = "Text" -> annotation.text
                          [] OTHER                     -> "unhandled type")
                  ELSE @[x]]]]
    ELSE [ok |-> TRUE, field |-> field]

\* Field::add_annotation: [ok, field]; ok = FALSE is the Err return
add_annotation(field, annotation, names) ==
    IF annotation.id \in DOMAIN names
    THEN IF annotation.which = "Corrupt"
         THEN [ok |-> FALSE, field |-> field]
         ELSE LET value == CASE annotation.which = "Void" -> "true"
                             [] annotation.which = "Text" -> annotation.text
                             [] OTHER                     -> "unhandled type"
              IN  [ok |-> TRUE,
                   field |-> [field EXCEPT
                       !.annotations = MapInsert(@, names[annotation.id], value)]]
    ELSE [ok |-> TRUE, field |-> field]

NewField(name) == [name |-> name, annotations |-> EmptyMap]

\* add_field putting the new field in front
add_field_Front(s, name) ==
    [s EXCEPT !.fields = <<[name |-> name, annotations |-> [x \in {} |-> ""]]>> \o @]

\* Struct::add_field
add_field(s, name) == [s EXCEPT !.fields = Append(@, NewField(name))]

\* Enum::add_enumerant
add_enumerant(e, name) == [e EXCEPT !.enumerants = Append(@, NewField(name))]

\* Interface::add_method
add_method(f, name) == [f EXCEPT !.methods = Append(@, NewField(name))]

\* Results::add_struct
add_struct(r, name) == [r EXCEPT !.structs = Append(@, [name |-> name, fields |-> <<>>])]

\* get_current_struct without the - 1
get_current_struct_Len(r) == Len(r.structs)

\* Results::get_current_struct (usize: below 0 the subtraction overflows)
get_current_struct(r) == Len(r.structs) - 1

\* Results::add_enum
add_enum(r, name) == [r EXCEPT !.enums = Append(@, [name |-> name, enumerants |-> <<>>])]

\* Results::get_current_enum
get_current_enum(r) == Len(r.enums) - 1

\* Results::add_interface
add_interface(r, name) ==
    [r EXCEPT !.interfaces = Append(@, [name |-> name, methods |-> <<>>])]

\* Results::get_current_interface
get_current_interface(r) == Len(r.interfaces) - 1

\* add_unk recording the name without its two-byte scope prefix
add_unk_LocalName(r, name) == [r EXCEPT !.unk = Append(@, SubSeq(name, 3, Len(name)))]

\* Results::add_unk
add_unk(r, name) == [r EXCEPT !.unk = Append(@, name)]

\* the list of Results and the child list of a container that an arm works on
ListOf(kind) ==
    CASE kind = "Struct" -> "structs"
      [] kind = "Enum"   -> "enums"
      [] OTHER           -> "interfaces"

ChildrenOf(kind) ==
    CASE kind = "Struct" -> "fields"
      [] kind = "Enum"   -> "enumerants"
      [] OTHER           -> "methods"

add_container(kind, r, name) ==
    CASE kind = "Struct" -> add_struct(r, name)
      [] kind = "Enum"   -> add_enum(r, name)
      [] OTHER           -> add_interface(r, name)

get_current(kind, r) ==
    CASE kind = "Struct" -> get_current_struct(r)
      [] kind = "Enum"   -> get_current_enum(r)
      [] OTHER           -> get_current_interface(r)

add_child(kind, c, name) ==
    CASE kind = "Struct" -> add_field(c, name)
      [] kind = "Enum"   -> add_enumerant(c, name)
      [] OTHER           -> add_method(c, name)

\* serde_json::to_string_pretty(&results) with Field.annotations through ordered_map
FieldJson(f) == [name |-> f.name, annotations |-> ordered_map(f.annotations)]

ContainerJson(c, sub) ==
    [name |-> c.name, children |-> [k \in 1..Len(c[sub]) |-> FieldJson(c[sub][k])]]

to_string_pretty(r) ==
    [structs    |-> [k \in 1..Len(r.structs) |-> ContainerJson(r.structs[k], "fields")],
     enums      |-> [k \in 1..Len(r.enums) |-> ContainerJson(r.enums[k], "enumerants")],
     interfaces |-> [k \in 1..Len(r.interfaces) |-> ContainerJson(r.interfaces[k], "methods")],
     unk        |-> r.unk]

----------------------------------------------------------------------------
(* fn main *)

Init ==
    /\ nnodes = 0
    /\ nodes = <<>>
    /\ pass = 0
    /\ pc = "start"
    /\ n = 0
    /\ idx = 0
    /\ i = 0
    /\ a = 0
    /\ annotation_names = [x \in {} |-> <<>>]
    /\ results = [structs |-> <<>>, enums |-> <<>>, interfaces |-> <<>>, unk |-> <<>>]
    /\ fault = "none"
    /\ output = <<>>

\* a getter's `?` returned Err: main returns the error
Abort(site) ==
    /\ pc' = "error"
    /\ fault' = site

\* gen.request.get_nodes()? of the first loop decodes the node list
GetNodes ==
    /\ pc = "start"
    /\ \E len \in 0..MaxNodes :
        /\ nnodes' = len
        /\ pc' = "pass1"
        /\ pass' = 1
    /\ UNCHANGED <<nodes, n, idx, i, a, annotation_names, results, fault, output>>

GetNodesError ==
    /\ pc = "start"
    /\ Abort("nodes")
    /\ pass' = 1
    /\ UNCHANGED <<nnodes, nodes, n, idx, i, a, annotation_names, results, output>>

\* the first loop has consumed the whole list
Pass1Done == Len(nodes) = nnodes

\* first loop, node.which()? fails
Pass1KindError ==
    /\ pc = "pass1"
    /\ ~Pass1Done
    /\ Abort("kind")
    /\ UNCHANGED <<nnodes, nodes, pass, n, idx, i, a, annotation_names, results, output>>

\* first loop, a node that is no annotation declaration: nothing is recorded
Pass1Other ==
    /\ pc = "pass1"
    /\ ~Pass1Done
    /\ \E kind \in ContainerKinds \cup OtherKinds :
        nodes' = Append(nodes,
            [kind |-> kind, id |-> 10 + Len(nodes) + 1,
             name |-> NodeName(kind, Len(nodes) + 1), prefixLen |-> 2,
             nchildren |-> 0, children |-> <<>>])
    /\ UNCHANGED <<nnodes, pass, pc, n, idx, i, a, annotation_names, results, fault, output>>

\* first loop, annotation declaration, node.get_display_name()? fails
Pass1NameError ==
    /\ pc = "pass1"
    /\ ~Pass1Done
    /\ Abort("display_name")
    /\ UNCHANGED <<nnodes, nodes, pass, n, idx, i, a, annotation_names, results, output>>

\* first loop, annotation declaration: index its identity under the display
\* name without its prefix; the slice panics outside the name or inside a
\* character
Pass1Annotation ==
    /\ pc = "pass1"
    /\ ~Pass1Done
    /\ \E id \in AnnIds \ UsedAnnIds, decl \in AnnotationDecls :
        LET node_name == decl.name
            prefix_len == decl.prefixLen
        IN  /\ nodes' = Append(nodes,
                    [kind |-> "Annotation", id |-> id, name |-> node_name,
                     prefixLen |-> prefix_len, nchildren |-> 0, children |-> <<>>])
            /\ IF prefix_len <= Len(node_name) /\ is_char_boundary(node_name, prefix_len)
               THEN /\ annotation_names' =
                            MapInsert(annotation_names, id, SliceFrom(node_name, prefix_len))
                    /\ pc' = pc
               ELSE /\ pc' = "panic"
                    /\ UNCHANGED annotation_names
    /\ UNCHANGED <<nnodes, pass, n, idx, i, a, results, fault, output>>

\* the end of the first loop with the index not handed to the second
Pass1End_IndexCleared ==
    /\ pc = "pass1"
    /\ Len(nodes) = nnodes
    /\ pc' = "pass2"
    /\ pass' = 2
    /\ n' = 0
    /\ annotation_names' = [x \in {} |-> <<>>]
    /\ UNCHANGED <<nnodes, nodes, idx, i, a, results, fault, output>>

\* the first loop ends; the second get_nodes()? decodes the same list again
Pass1End ==
    /\ pc = "pass1"
    /\ Pass1Done
    /\ pc' = "pass2"
    /\ pass' = 2
    /\ n' = 0
    /\ UNCHANGED <<nnodes, nodes, idx, i, a, annotation_names, results, fault, output>>

\* the node the second loop is at, the list of Results and the container
\* its arm works on
CurNode == nodes[n + 1]
CurList == results[ListOf(CurNode.kind)]
CurChildren == CurList[idx + 1][ChildrenOf(CurNode.kind)]

\* results.structs[idx], results.enums[idx], results.interfaces[idx]:
\* indexing a Vec out of bounds panics
ContainerInBounds == idx >= 0 /\ idx < Len(CurList)
ChildInBounds == ContainerInBounds /\ i >= 0 /\ i < Len(CurChildren)

\* second loop, node.get_display_name()? fails.  The names of annotation
\* declarations were decoded by the first loop and decode again; node.which()?
\* succeeded in the first loop for every node and succeeds again.
Pass2NameError ==
    /\ pc = "pass2"
    /\ n < nnodes
    /\ CurNode.kind # "Annotation"
    /\ Abort("display_name")
    /\ UNCHANGED <<nnodes, nodes, pass, n, idx, i, a, annotation_names, results, output>>

\* the Struct, Enum and Interface arms up to the child loop: push the
\* container, take its index, decode the child list
ContainerArm(kind) ==
    /\ pc = "pass2"
    /\ n < nnodes
    /\ CurNode.kind = kind
    /\ LET pushed == add_container(kind, results, CurNode.name)
       IN  /\ results' = pushed
           /\ idx' = get_current(kind, pushed)
    /\ \E len \in 0..(MaxSize - Size) :
        nodes' = [nodes EXCEPT ![n + 1].nchildren = len]
    /\ pc' = "children"
    /\ i' = 0
    /\ UNCHANGED <<nnodes, pass, n, a, annotation_names, fault, output>>

StructArm == ContainerArm("Struct")

EnumArm == ContainerArm("Enum")

InterfaceArm == ContainerArm("Interface")

\* reader.get_fields()?, get_enumerants()? or get_methods()? fails
GetChildrenError ==
    /\ pc = "pass2"
    /\ n < nnodes
    /\ CurNode.kind \in ContainerKinds
    /\ LET pushed == add_container(CurNode.kind, results, CurNode.name)
       IN  /\ results' = pushed
           /\ idx' = get_current(CurNode.kind, pushed)
    /\ Abort("children")
    /\ UNCHANGED <<nnodes, nodes, pass, n, i, a, annotation_names, output>>

\* a default arm that passes over annotation declarations
DefaultArm_SkipsDeclarations ==
    /\ pc = "pass2"
    /\ n < nnodes
    /\ nodes[n + 1].kind \notin ContainerKinds
    /\ results' = IF nodes[n + 1].kind = "Annotation"
                  THEN results
                  ELSE [results EXCEPT !.unk = Append(@, nodes[n + 1].name)]
    /\ n' = n + 1
    /\ UNCHANGED <<nnodes, nodes, pass, pc, idx, i, a, annotation_names, fault, output>>

\* the default arm
DefaultArm ==
    /\ pc = "pass2"
    /\ n < nnodes
    /\ CurNode.kind \notin ContainerKinds
    /\ results' = add_unk(results, CurNode.name)
    /\ n' = n + 1
    /\ UNCHANGED <<nnodes, nodes, pass, pc, idx, i, a, annotation_names, fault, output>>

\* child loop, field.get_name()? (enumerant, method) fails
ChildNameError ==
    /\ pc = "children"
    /\ i < CurNode.nchildren
    /\ Abort("child_name")
    /\ UNCHANGED <<nnodes, nodes, pass, n, idx, i, a, annotation_names, results, output>>

\* child loop: decode the child's name, push the child, decode its
\* annotation list
ChildStep ==
    /\ pc = "children"
    /\ i < CurNode.nchildren
    /\ \E name \in ChildNames, len \in 0..(MaxSize - Size) :
        nodes' = [nodes EXCEPT ![n + 1].children =
                     Append(@, [name |-> name, nannots |-> len, annotations |-> <<>>])]
    /\ IF ContainerInBounds
       THEN /\ results' = [results EXCEPT ![ListOf(CurNode.kind)][idx + 1] =
                    add_child(CurNode.kind, @, nodes'[n + 1].children[i + 1].name)]
            /\ pc' = "annotations"
       ELSE /\ pc' = "panic"
            /\ UNCHANGED results
    /\ a' = 0
    /\ UNCHANGED <<nnodes, pass, n, idx, i, annotation_names, fault, output>>

\* child loop, field.get_annotations()? (enumerant, method) fails
GetAnnotationsError ==
    /\ pc = "children"
    /\ i < CurNode.nchildren
    /\ ContainerInBounds
    /\ \E name \in ChildNames :
        /\ nodes' = [nodes EXCEPT ![n + 1].children =
                        Append(@, [name |-> name, nannots |-> 0, annotations |-> <<>>])]
        /\ results' = [results EXCEPT ![ListOf(CurNode.kind)][idx + 1] =
                          add_child(CurNode.kind, @, name)]
    /\ Abort("annotations")
    /\ UNCHANGED <<nnodes, pass, n, idx, i, a, annotation_names, output>>

\* the child loop ends: next node
ChildrenEnd ==
    /\ pc = "children"
    /\ i = CurNode.nchildren
    /\ pc' = "pass2"
    /\ n' = n + 1
    /\ UNCHANGED <<nnodes, nodes, pass, idx, i, a, annotation_names, results, fault, output>>

\* annotation loop: results.<list>[idx].<children>[i].add_annotation(annotation,
\* &annotation_names)?
AnnotationStep ==
    /\ pc = "annotations"
    /\ a < CurNode.children[i + 1].nannots
    /\ \E annotation \in Apps :
        /\ nodes' = [nodes EXCEPT ![n + 1].children[i + 1].annotations =
                        Append(@, annotation)]
        /\ IF ChildInBounds
           THEN LET r == add_annotation(CurChildren[i + 1], annotation, annotation_names)
                IN  IF r.ok
                    THEN /\ results' = [results EXCEPT
                                ![ListOf(CurNode.kind)][idx + 1][ChildrenOf(CurNode.kind)][i + 1]
                                    = r.field]
                         /\ a' = a + 1
                         /\ UNCHANGED <<pc, fault>>
                    ELSE /\ Abort("payload")
                         /\ UNCHANGED <<results, a>>
           ELSE /\ pc' = "panic"
                /\ UNCHANGED <<results, a, fault>>
    /\ UNCHANGED <<nnodes, pass, n, idx, i, annotation_names, output>>

\* the annotation loop ends: next child
AnnotationsEnd ==
    /\ pc = "annotations"
    /\ a = CurNode.children[i + 1].nannots
    /\ pc' = "children"
    /\ i' = i + 1
    /\ UNCHANGED <<nnodes, nodes, pass, n, idx, a, annotation_names, results, fault, output>>

\* after the second loop: serialize and write the file
WriteOutput ==
    /\ pc = "pass2"
    /\ n = nnodes
    /\ output' = <<to_string_pretty(results)>>
    /\ pc' = "done"
    /\ UNCHANGED <<nnodes, nodes, pass, n, idx, i, a, annotation_names, results, fault>>

\* fs::write(args.output, json)? fails
WriteError ==
    /\ pc = "pass2"
    /\ n = nnodes
    /\ Abort("write")
    /\ UNCHANGED <<nnodes, nodes, pass, n, idx, i, a, annotation_names, results, output>>

Next ==
    \/ GetNodes
    \/ GetNodesError
    \/ Pass1KindError
    \/ Pass1Other
    \/ Pass1NameError
    \/ Pass1Annotation
    \/ Pass1End
    \/ Pass2NameError
    \/ StructArm
    \/ EnumArm
    \/ InterfaceArm
    \/ GetChildrenError
    \/ DefaultArm
    \/ ChildNameError
    \/ ChildStep
    \/ GetAnnotationsError
    \/ ChildrenEnd
    \/ AnnotationStep
    \/ AnnotationsEnd
    \/ WriteOutput
    \/ WriteError

Spec == Init /\ [][Next]_vars

----------------------------------------------------------------------------
(* What the properties below refer to, stated over the decoded stream *)

Range(f) == { f[k] : k \in DOMAIN f }

\* the display name without its first prefixLen bytes
LocalName(node) ==
    [k \in 1..(Len(node.name) - node.prefixLen) |-> node.name[k + node.prefixLen]]

\* the prefix length is a position of the name and not inside a character
ValidPrefix(node) ==
    /\ node.prefixLen <= Len(node.name)
    /\ \/ node.prefixLen \in {0, Len(node.name)}
       \/ node.name[node.prefixLen + 1] \notin 128..191

DeclPositions == { k \in 1..Len(nodes) : nodes[k].kind = "Annotation" }

\* identity -> local name, over every annotation declaration of the stream
DeclaredIndex ==
    [id \in { nodes[k].id : k \in DeclPositions } |->
        LocalName(nodes[CHOOSE k \in DeclPositions : nodes[k].id = id])]

ContainerPositions == { k \in 1..Len(nodes) : nodes[k].kind \in ContainerKinds }

\* the k-th node is the Rank(k)-th node of its kind
Rank(k) == Cardinality({ j \in 1..k : nodes[j].kind = nodes[k].kind })

Built(k) == Rank(k) <= Len(results[ListOf(nodes[k].kind)])
ContainerFor(k) == results[ListOf(nodes[k].kind)][Rank(k)]
ChildrenFor(k) == ContainerFor(k)[ChildrenOf(nodes[k].kind)]

\* the value the resolver's policy gives a decodable payload
PolicyValue(app) ==
    IF app.which = "Void" THEN "true"
    ELSE IF app.which = "Text" THEN app.text
    ELSE "unhandled type"

\* the applications of child c of node k that resolve to the name key under
\* the index
Resolving(index, k, c, key) ==
    { x \in 1..Len(nodes[k].children[c].annotations) :
        LET app == nodes[k].children[c].annotations[x]
        IN  /\ app.id \in DOMAIN index
            /\ app.which # "Corrupt"
            /\ index[app.id] = key }

Max(S) == CHOOSE x \in S : \A y \in S : y <= x

\* every decoded application, with its place in the stream
DecodedApps ==
    UNION { UNION { { <<k, c, x>> : x \in 1..Len(nodes[k].children[c].annotations) } :
                      c \in 1..Len(nodes[k].children) } :
              k \in 1..Len(nodes) }

AppAt(t) == nodes[t[1]].children[t[2]].annotations[t[3]]

\* the application an AnnotationStep decodes, seen from the step's end
StepApp == nodes'[n + 1].children[i + 1].annotations[a + 1]
IsAnnotationStep == pc = "annotations" /\ nodes' # nodes

----------------------------------------------------------------------------
(* C1 *)

\* C1: in the second pass the index holds the local name of every annotation
\* declaration of the stream, wherever the declaration stands, and it keeps
\* that value throughout the pass; so an application resolves under its
\* declaration's name also when the declaration stands after the use site.
C1_IndexCompleteInPass2 ==
    pass = 2 =>
        LET index == DeclaredIndex
        IN  /\ Len(nodes) = nnodes
            /\ annotation_names = index
            /\ \A t \in DecodedApps :
                (AppAt(t).id \in DOMAIN index /\ AppAt(t).which # "Corrupt") =>
                    /\ Built(t[1])
                    /\ t[2] <= Len(ChildrenFor(t[1]))
                    /\ index[AppAt(t).id] \in DOMAIN ChildrenFor(t[1])[t[2]].annotations
                    /\ ChildrenFor(t[1])[t[2]].annotations[index[AppAt(t).id]]
                           \in { PolicyValue(nodes[t[1]].children[t[2]].annotations[x]) :
                                   x \in Resolving(index, t[1], t[2], index[AppAt(t).id]) }

\* a finished run in which a child carries an application of an annotation
\* declared later in the stream, resolved under the declaration's name
C1_Witness ==
    /\ pc = "done"
    /\ \E t \in DecodedApps : \E j \in DeclPositions :
        /\ j > t[1]
        /\ nodes[j].id = AppAt(t).id
        /\ AppAt(t).which = "Text"
        /\ LocalName(nodes[j]) \in DOMAIN ChildrenFor(t[1])[t[2]].annotations
        /\ ChildrenFor(t[1])[t[2]].annotations[LocalName(nodes[j])] = AppAt(t).text

----------------------------------------------------------------------------
(* C2 *)

\* C2: an application whose identity is in the index and whose payload
\* decodes inserts exactly the entry (indexed name, value), the value being
\* "true" for Void, the text for Text and "unhandled type" for any other
\* kind; nothing else of the result changes and the run goes on.
C2_ResolvedEntry ==
    [][ (IsAnnotationStep
         /\ StepApp.id \in DOMAIN annotation_names
         /\ StepApp.which # "Corrupt")
        => LET old == CurChildren[i + 1].annotations
               key == annotation_names[StepApp.id]
               new == [x \in DOMAIN old \cup {key} |->
                          IF x = key THEN PolicyValue(StepApp) ELSE old[x]]
           IN  /\ pc' = "annotations"
               /\ fault' = "none"
               /\ a' = a + 1
               /\ results' = [results EXCEPT
                      ![ListOf(CurNode.kind)][idx + 1][ChildrenOf(CurNode.kind)][i + 1].annotations
                          = new] ]_vars

\* a finished run with an entry "unhandled type" made from a Bool payload
C2_Witness ==
    /\ pc = "done"
    /\ \E t \in DecodedApps :
        /\ AppAt(t).which = "Bool"
        /\ AppAt(t).id \in DOMAIN annotation_names
        /\ ChildrenFor(t[1])[t[2]].annotations[annotation_names[AppAt(t).id]]
               = "unhandled type"

----------------------------------------------------------------------------
(* C3 *)

\* C3: a container whose node the second pass has finished has the node's
\* name and, child by child, the names of the node's declared children, as
\* many as declared; at the end each list holds the containers of the nodes
\* of its kind in stream order.
C3_ChildrenAndOrder ==
    pass = 2 =>
        /\ \A k \in ContainerPositions :
            k <= n =>
                /\ Built(k)
                /\ ContainerFor(k).name = nodes[k].name
                /\ Len(ChildrenFor(k)) = nodes[k].nchildren
                /\ Len(nodes[k].children) = nodes[k].nchildren
                /\ \A c \in 1..nodes[k].nchildren :
                    ChildrenFor(k)[c].name = nodes[k].children[c].name
        /\ pc = "done" =>
            \A kind \in ContainerKinds :
                Len(results[ListOf(kind)])
                    = Cardinality({ k \in 1..Len(nodes) : nodes[k].kind = kind })

\* a finished run with two nodes of one kind, one of them with the children a, b
C3_Witness ==
    /\ pc = "done"
    /\ \E k \in ContainerPositions :
        /\ Rank(k) = 2
        /\ nodes[k].nchildren = 2
        /\ ChildrenFor(k)[1].name = <<97>>
        /\ ChildrenFor(k)[2].name = <<98>>

----------------------------------------------------------------------------
(* C4 *)

\* C4: an application whose identity is not in the index changes nothing of
\* the result, whatever its payload, raises no error, and the loop goes on
\* to the next application.
C4_UnknownIdentitySkipped ==
    [][ (IsAnnotationStep /\ StepApp.id \notin DOMAIN annotation_names)
        => /\ results' = results
           /\ pc' = "annotations"
           /\ fault' = fault
           /\ a' = a + 1 ]_vars

\* a child with a resolved entry whose next application, of an identity the
\* index lacks, was consumed
C4_Witness ==
    /\ pc = "annotations"
    /\ a = 2
    /\ CurNode.children[i + 1].annotations[2].id \notin DOMAIN annotation_names
    /\ CurNode.children[i + 1].annotations[1].id \in DOMAIN annotation_names
    /\ DOMAIN CurChildren[i + 1].annotations # {}

----------------------------------------------------------------------------
(* C5 *)

\* C5 as claimed: after the second pass no list, unk included, holds an
\* entry made from an annotation-declaration node.
C5_DeclarationLeavesNoEntry ==
    pc = "done" =>
        \A k \in DeclPositions :
            /\ nodes[k].name \notin Range(results.unk)
            /\ \A kind \in ContainerKinds :
                \A r \in 1..Len(results[ListOf(kind)]) :
                    results[ListOf(kind)][r].name # nodes[k].name

\* C5 amended: an annotation-declaration node adds no container to structs,
\* enums or interfaces; it takes the default arm, so its full display name
\* is an entry of unk, at the node's place among the nodes that are not
\* records, enumerations or interfaces.
C5_DeclarationGoesToUnk ==
    pc = "done" =>
        \A k \in DeclPositions :
            LET at == Cardinality({ j \in 1..k : nodes[j].kind \notin ContainerKinds })
            IN  /\ at <= Len(results.unk)
                /\ results.unk[at] = nodes[k].name
                /\ \A kind \in ContainerKinds :
                    \A r \in 1..Len(results[ListOf(kind)]) :
                        results[ListOf(kind)][r].name # nodes[k].name

\* a finished run whose stream holds an annotation declaration, named in unk
C5_Witness ==
    /\ pc = "done"
    /\ \E k \in DeclPositions : nodes[k].name \in Range(results.unk)

----------------------------------------------------------------------------
(* C6 *)

\* C6 as claimed, for the payloads: once the output file is written, no
\* annotation application of the stream has a corrupt payload.
C6_AnyCorruptPayloadAborts ==
    output # <<>> => \A t \in DecodedApps : AppAt(t).which # "Corrupt"

\* C6 amended: a decode error of a getter, and a corrupt payload on an
\* application whose identity is in the index, abort the run with an error
\* and the file is never written; the file is written only after both
\* passes went over the whole stream without error.
C6_ErrorsAbortBeforeWrite ==
    /\ fault # "none" => (pc = "error" /\ output = <<>>)
    /\ pc \in {"error", "panic"} => output = <<>>
    /\ output # <<>> =>
        /\ pc = "done"
        /\ pass = 2
        /\ Len(nodes) = nnodes
        /\ n = nnodes
    /\ pass = 2 =>
        \A t \in DecodedApps :
            (AppAt(t).which = "Corrupt" /\ AppAt(t).id \in UsedAnnIds) =>
                (pc = "error" /\ fault = "payload")

\* a run aborted by a corrupt payload on an indexed application
C6_Witness ==
    /\ pc = "error"
    /\ fault = "payload"
    /\ output = <<>>
    /\ \E t \in DecodedApps :
        AppAt(t).which = "Corrupt" /\ AppAt(t).id \in DOMAIN annotation_names

----------------------------------------------------------------------------
(* C7 *)

\* C7: the annotation map of a child has one entry per name its
\* applications resolve to, and the entry's value is the one of the last
\* such application in the child's list.
C7_LastWriteWins ==
    pass = 2 =>
        LET index == DeclaredIndex
        IN  \A k \in ContainerPositions :
                \A c \in 1..Len(nodes[k].children) :
                    (Built(k) /\ c <= Len(ChildrenFor(k))) =>
                        LET map == ChildrenFor(k)[c].annotations
                        IN  /\ DOMAIN map =
                                  { key \in Range(index) : Resolving(index, k, c, key) # {} }
                            /\ \A key \in DOMAIN map :
                                map[key] = PolicyValue(
                                    nodes[k].children[c].annotations[
                                        Max(Resolving(index, k, c, key))])

\* a finished run with a child whose two applications resolve to one name
\* with different values
C7_Witness ==
    /\ pc = "done"
    /\ \E k \in ContainerPositions : \E c \in 1..Len(nodes[k].children) :
        \E key \in Range(DeclaredIndex) :
            /\ Cardinality(Resolving(DeclaredIndex, k, c, key)) = 2
            /\ PolicyValue(nodes[k].children[c].annotations[1])
                   # PolicyValue(nodes[k].children[c].annotations[2])
            /\ ChildrenFor(k)[c].annotations[key]
                   = PolicyValue(nodes[k].children[c].annotations[2])

----------------------------------------------------------------------------
(* C8 *)

\* C8: the second pass, at a node of a kind other than record, enumeration,
\* interface (a constant, a file) whose name decodes, appends the node's full
\* display name to unk, leaves structs, enums and interfaces as they are and
\* goes on to the next node without error.
C8_OtherKindToUnk ==
    [][ (/\ pc = "pass2"
         /\ n < nnodes
         /\ nodes[n + 1].kind \in OtherKinds
         /\ vars' # vars
         /\ fault' = "none")
        => /\ results'.unk = Append(results.unk, nodes[n + 1].name)
           /\ results'.structs = results.structs
           /\ results'.enums = results.enums
           /\ results'.interfaces = results.interfaces
           /\ pc' = "pass2"
           /\ n' = n + 1 ]_vars

\* a finished run whose stream holds a constant, named in unk
C8_Witness ==
    /\ pc = "done"
    /\ \E k \in 1..Len(nodes) :
        /\ nodes[k].kind = "Const"
        /\ nodes[k].name \in Range(results.unk)
        /\ results.structs = <<>>

----------------------------------------------------------------------------
(* C9 *)

\* C9 as claimed: the first pass neither panics nor fails on a display name.
C9_Pass1CannotFail ==
    pass = 1 => (pc # "panic" /\ fault # "display_name")

\* C9 amended: the first pass fails with an error when a node's kind or an
\* annotation declaration's display name does not decode, and panics when a
\* prefix length is larger than the name's length in bytes or falls inside a
\* multi-byte character; for every other annotation declaration it records
\* identity -> display name without its first prefix-length bytes.
C9_Pass1RecordsOrFails ==
    /\ pc = "panic" =>
        /\ pass = 1
        /\ nodes # <<>>
        /\ nodes[Len(nodes)].kind = "Annotation"
        /\ ~ValidPrefix(nodes[Len(nodes)])
    /\ \A k \in DeclPositions :
        IF ValidPrefix(nodes[k])
        THEN /\ nodes[k].id \in DOMAIN annotation_names
             /\ annotation_names[nodes[k].id] = LocalName(nodes[k])
        ELSE /\ pc = "panic"
             /\ k = Len(nodes)
             /\ nodes[k].id \notin DOMAIN annotation_names
    /\ (pass = 1 /\ pc = "error") => fault \in {"nodes", "kind", "display_name"}

\* the second pass reached with the declaration "é:g", prefix length 3,
\* indexed as "g"
C9_Witness ==
    /\ pass = 2
    /\ \E k \in DeclPositions :
        /\ nodes[k].name = <<195, 169, 58, 103>>
        /\ annotation_names[nodes[k].id] = <<103>>

----------------------------------------------------------------------------
(* C10 *)

\* C10: in the child and annotation loops idx is the index of the last
\* container of the list, which is the container of the node being
\* processed; in the annotation loop i is the index of the last child of that
\* container, the child of this iteration; no index is out of bounds.
C10_IndicesDenoteCurrent ==
    /\ pc \in {"children", "annotations"} =>
        /\ idx >= 0
        /\ idx = Len(CurList) - 1
        /\ idx + 1 = Rank(n + 1)
        /\ CurList[idx + 1].name = CurNode.name
    /\ pc = "annotations" =>
        /\ i = Len(CurChildren) - 1
        /\ i = Len(CurNode.children) - 1
        /\ CurChildren[i + 1].name = CurNode.children[i + 1].name
    /\ pc = "panic" => pass = 1

\* add_annotation was called on the second child of the second container
C10_Witness ==
    /\ pc = "annotations"
    /\ a >= 1
    /\ idx = 1
    /\ i = 1

====
